---- MODULE Spec2Model ----
(***************************************************************************)
(* Model of plugins/modules/system/aix_lvol.py: one run of main() as a     *)
(* sequence of steps (one per command invocation, parse or decision), the  *)
(* pure helpers convert_size, round_ppsize, parse_lv and parse_vg as       *)
(* operators, and the command runner as the environment.                   *)
(***************************************************************************)
EXTENDS Integers, Sequences, FiniteSets, TLC

VARIABLES params, check_mode, run, twin, env, env0, hist, faithful, calc

vars == <<params, check_mode, run, twin, env, env0, hist, faithful, calc>>

(***************************************************************************)
(* Bounds of the model.                                                    *)
(***************************************************************************)
\* observed logical partitions of an existing volume range over 1..MaxLPs
MaxLPs == 3
\* the free figure of a group report ranges over EnvPP * (1..MaxFreePPs)
MaxFreePPs == 2
\* number of consecutive runs of the module against one environment
MaxRuns == 4
\* physical partition size (MB) of the groups of the modelled environment
EnvPP == 4
\* round_ppsize is called on x in 1..MaxValue and base in 1..MaxBase
MaxValue == 24
MaxBase == 8
\* convert_size is called on the strings of at most MaxStrLen characters
MaxStrLen == 3
\* parse_lv and parse_vg are called on the texts of at most MaxLines lines
MaxLines == 5

(***************************************************************************)
(* Strings the code inspects character by character (the size option) are  *)
(* sequences of one-character strings.                                     *)
(***************************************************************************)
DigitChars == {"0", "1", "2", "3", "4", "5", "6", "7", "8", "9"}

DigitVal(c) ==
    CASE c = "0" -> 0 [] c = "1" -> 1 [] c = "2" -> 2 [] c = "3" -> 3
      [] c = "4" -> 4 [] c = "5" -> 5 [] c = "6" -> 6 [] c = "7" -> 7
      [] c = "8" -> 8 [] c = "9" -> 9

\* variant of Upper that leaves the character as it is
Upper_asIs(c) == c

\* str.upper() on one character
Upper(c) ==
    CASE c = "m" -> "M" [] c = "g" -> "G" [] c = "t" -> "T" [] c = "k" -> "K"
      [] OTHER -> c

\* units = ['M', 'G', 'T']
units == <<"M", "G", "T">>

\* list.index: the 0-based position of the first occurrence, -1 for ValueError
UnitIndex(u) ==
    IF \E i \in 1..Len(units) : units[i] = u
    THEN (CHOOSE i \in 1..Len(units) :
              units[i] = u /\ \A j \in 1..(i - 1) : units[j] # u) - 1
    ELSE -1

RECURSIVE Pow(_, _)
Pow(b, e) == IF e = 0 THEN 1 ELSE b * Pow(b, e - 1)

\* int() of a digit string, most significant digit first
RECURSIVE DigitsVal(_)
DigitsVal(s) ==
    IF Len(s) = 0 THEN 0
    ELSE 10 * DigitsVal(SubSeq(s, 1, Len(s) - 1)) + DigitVal(s[Len(s)])

\* int(text) returns normally: a non-empty string of decimal digits
IsInt(s) == Len(s) > 0 /\ \A i \in 1..Len(s) : s[i] \in DigitChars

(***************************************************************************)
(* convert_size(module, size).  tag "ok": the value returned; tag "fail":  *)
(* module.fail_json was called; tag "exc": an uncaught Python exception    *)
(* (IndexError on the empty string, ValueError from int()).                *)
(***************************************************************************)
convert_size(size) ==
    IF Len(size) = 0 THEN [tag |-> "exc", val |-> 0]
    ELSE LET unit == Upper(size[Len(size)])
             idx  == UnitIndex(unit)
             pre  == SubSeq(size, 1, Len(size) - 1)
         IN  IF idx < 0 THEN [tag |-> "fail", val |-> 0]
             ELSE IF ~IsInt(pre) THEN [tag |-> "exc", val |-> 0]
             ELSE [tag |-> "ok", val |-> DigitsVal(pre) * Pow(1024, idx)]

\* round(float(x) / base) for x >= 0, base > 0: Python 3 rounds half to even.
\* The quotient is taken exactly: float is exact on the integers below 2^53,
\* which covers every value of the model.
RoundHalfEven(x, base) ==
    LET q == x \div base
        r == x % base
    IN  IF 2 * r < base THEN q
        ELSE IF 2 * r > base THEN q + 1
        ELSE IF q % 2 = 0 THEN q ELSE q + 1

\* variant of round_ppsize without the 'if new_size < x' correction
round_ppsize_nearest(x, base) ==
    IF base = 0 THEN -1 ELSE base * RoundHalfEven(x, base)

\* variant of round_ppsize whose correction is 'if new_size <= x'
round_ppsize_le(x, base) ==
    IF base = 0 THEN -1
    ELSE LET new_size == base * RoundHalfEven(x, base)
         IN  IF new_size <= x THEN new_size + base ELSE new_size

\* round_ppsize(x, base); base = 0 raises ZeroDivisionError (-1 here)
round_ppsize(x, base) ==
    IF base = 0 THEN -1
    ELSE LET new_size == base * RoundHalfEven(x, base)
         IN  IF new_size < x THEN new_size + base ELSE new_size

(***************************************************************************)
(* Report texts.  A line is modelled by what the parsers' regular          *)
(* expressions capture from it: "" or -1 where the labelled field is not   *)
(* on the line (\w+ never captures "", \d+ never captures a negative).     *)
(***************************************************************************)
NoLine == [lv |-> "", vg |-> "", lps |-> -1, pp_size |-> -1, policy |-> "",
           total |-> -1, free |-> -1]

\* "LOGICAL VOLUME: <n>   VOLUME GROUP: <g>"
LvNameLine(n, g) == [NoLine EXCEPT !.lv = n, !.vg = g]
\* "VOLUME GROUP: <g>   VG IDENTIFIER: ..."
VgNameLine(g) == [NoLine EXCEPT !.vg = g]
\* "LPs: <k>   PPs: <k>"
LpsLine(k) == [NoLine EXCEPT !.lps = k]
\* "... PP SIZE: <k> megabyte(s)"
PpSizeLine(k) == [NoLine EXCEPT !.pp_size = k]
\* "INTER-POLICY: <w>   RELOCATABLE: yes"
PolicyLine(w) == [NoLine EXCEPT !.policy = w]
\* "... TOTAL PPs: <n> (<k> megabytes)"
TotalLine(k) == [NoLine EXCEPT !.total = k]
\* "... FREE PPs: <n> (<k> megabytes)"
FreeLine(k) == [NoLine EXCEPT !.free = k]

\* variant of parse_lv_loop without the 'continue's: a line goes through
\* all four patterns
RECURSIVE parse_lv_loop_all(_, _)
parse_lv_loop_all(data, acc) ==
    IF Len(data) = 0 THEN acc
    ELSE LET line == Head(data)
             a1 == IF line.lv # "" /\ line.vg # ""
                   THEN [acc EXCEPT !.name = line.lv, !.vg = line.vg] ELSE acc
             a2 == IF line.lps >= 0 THEN [a1 EXCEPT !.lps = line.lps] ELSE a1
             a3 == IF line.pp_size >= 0
                   THEN [a2 EXCEPT !.pp_size = line.pp_size] ELSE a2
             a4 == IF line.policy # ""
                   THEN [a3 EXCEPT !.policy = line.policy] ELSE a3
         IN  parse_lv_loop_all(Tail(data), a4)

\* the local variables of parse_lv; "" and -1 stand for an unbound local
RECURSIVE parse_lv_loop(_, _)
parse_lv_loop(data, acc) ==
    IF Len(data) = 0 THEN acc
    ELSE LET line == Head(data)
             nxt  == IF line.lv # "" /\ line.vg # ""
                         THEN [acc EXCEPT !.name = line.lv, !.vg = line.vg]
                     ELSE IF line.lps >= 0 THEN [acc EXCEPT !.lps = line.lps]
                     ELSE IF line.pp_size >= 0
                         THEN [acc EXCEPT !.pp_size = line.pp_size]
                     ELSE IF line.policy # ""
                         THEN [acc EXCEPT !.policy = line.policy]
                     ELSE acc
         IN  parse_lv_loop(Tail(data), nxt)

NoneLV == [tag |-> "None", name |-> "", vg |-> "", size |-> 0, policy |-> ""]
ExcLV == [tag |-> "exc", name |-> "", vg |-> "", size |-> 0, policy |-> ""]

\* parse_lv(data): None when no name line matched, the dict otherwise;
\* building the dict reads lps, pp_size and policy: UnboundLocalError (tag
\* "exc") when one of them was never assigned
parse_lv(data) ==
    LET a == parse_lv_loop(data, [name |-> "", vg |-> "", lps |-> -1,
                                  pp_size |-> -1, policy |-> ""])
    IN  IF a.name = "" THEN NoneLV
        ELSE IF a.lps < 0 \/ a.pp_size < 0 \/ a.policy = "" THEN ExcLV
        ELSE [tag |-> "lv", name |-> a.name, vg |-> a.vg,
              size |-> a.lps * a.pp_size, policy |-> a.policy]

RECURSIVE parse_vg_loop(_, _)
parse_vg_loop(data, acc) ==
    IF Len(data) = 0 THEN acc
    ELSE LET line == Head(data)
             nxt  == IF line.vg # "" THEN [acc EXCEPT !.name = line.vg]
                     ELSE IF line.total >= 0 THEN [acc EXCEPT !.size = line.total]
                     ELSE IF line.pp_size >= 0
                         THEN [acc EXCEPT !.pp_size = line.pp_size]
                     ELSE IF line.free >= 0 THEN [acc EXCEPT !.free = line.free]
                     ELSE acc
         IN  parse_vg_loop(Tail(data), nxt)

UnsetVG == [tag |-> "unset", name |-> "", size |-> -1, free |-> -1, pp_size |-> -1]
ExcVG == [UnsetVG EXCEPT !.tag = "exc"]

\* parse_vg(data): the dict, or UnboundLocalError (tag "exc") when one of
\* the four locals was never assigned
parse_vg(data) ==
    LET a == parse_vg_loop(data, [name |-> "", size |-> -1, free |-> -1,
                                  pp_size |-> -1])
    IN  IF a.name = "" \/ a.size < 0 \/ a.free < 0 \/ a.pp_size < 0 THEN ExcVG
        ELSE [tag |-> "vg", name |-> a.name, size |-> a.size, free |-> a.free,
              pp_size |-> a.pp_size]

(***************************************************************************)
(* The module parameters (the desired state) and the locals of main().     *)
(***************************************************************************)
\* size=None, and a size string
NoSize == [given |-> FALSE, s |-> <<>>]
SizeStr(s) == [given |-> TRUE, s |-> s]

\* Python truth of the size parameter: neither None nor ""
Truthy(size) == size.given /\ Len(size.s) > 0

\* lv_policy = 'x' if policy == 'maximum' else 'm'
lv_policy(policy) == IF policy = "maximum" THEN "x" ELSE "m"

\* variant of test_opt that ignores check mode
test_opt_none(chk) == ""

\* test_opt = 'echo ' if module.check_mode else ''
test_opt(chk) == IF chk THEN "echo " ELSE ""

\* the name of the logical volume (module.params['lv'])
lv == "lv1"

\* A result: rc is the exit code it carries, of the position in cmds of the
\* command whose output (out=, err=) it carries, 0 when it carries none.
NoResult == [kind |-> "none", changed |-> FALSE, msg |-> "", rc |-> 0, of |-> 0]
\* module.exit_json(changed=..., msg=...)
exit_json(changed, msg) ==
    [kind |-> "exit", changed |-> changed, msg |-> msg, rc |-> 0, of |-> 0]
\* module.fail_json(msg=...) without rc=, out=, err= (rc is 0 then)
fail_json(msg, rc) ==
    [kind |-> "fail", changed |-> FALSE, msg |-> msg, rc |-> rc, of |-> 0]
\* module.fail_json(msg=..., rc=rc, out=..., err=err) after the i-th command
fail_json_of(msg, rc, i) == [fail_json(msg, rc) EXCEPT !.of = i]
\* an uncaught exception ends the process with a traceback
Traceback(what) ==
    [kind |-> "exc", changed |-> FALSE, msg |-> what, rc |-> 0, of |-> 0]

\* a command line handed to module.run_command
Cmd(prefix, bin, target, vg, size, pol) ==
    [prefix |-> prefix, bin |-> bin, target |-> target, vg |-> vg,
     size |-> size, pol |-> pol]

Mutating == {"mklv", "rmlv", "chlv", "extendlv"}

\* the state of main() at its first statement after the parameters are read;
\* mut_rc is rc after the run_command of a mutating command line, -1 before
InitRun ==
    [pc |-> "lsvg", vg_rc |-> 0, vg_info |-> <<>>, this_vg |-> UnsetVG,
     lv_size |-> -1, lv_rc |-> 0, lv_info |-> <<>>, this_lv |-> NoneLV,
     mut_rc |-> -1, cmds |-> <<>>, trail |-> <<>>, result |-> NoResult]

\* the process ends: exit_json, fail_json, a traceback or the end of main()
Finish(r, res) == [r EXCEPT !.pc = "done", !.result = res]

Goto(r, label) == [r EXCEPT !.pc = label]

\* the step at r.pc is entered
Enter(r) == [r EXCEPT !.trail = Append(r.trail, r.pc)]

(***************************************************************************)
(* The steps of main(), one operator per step: r is the run, chk its       *)
(* check_mode, out / rc what the command runner returned.                  *)
(***************************************************************************)
\* variant of DoLsvg that goes on to the reports whatever lsvg's rc is
DoLsvg_goOn(r, out) ==
    Goto([Enter(r) EXCEPT
              !.cmds = Append(r.cmds, Cmd("", "lsvg", params.vg, "", -1, "")),
              !.vg_rc = out.rc, !.vg_info = out.text], "parse_vg")

\* rc, vg_info, err = module.run_command(f"{lsvg_cmd} {vg}")
DoLsvg(r, out) ==
    LET r1 == [Enter(r) EXCEPT
                   !.cmds = Append(r.cmds, Cmd("", "lsvg", params.vg, "", -1, "")),
                   !.vg_rc = out.rc, !.vg_info = out.text]
    IN  IF out.rc # 0
        THEN IF params.state = "absent"
             THEN Finish(r1, exit_json(FALSE, "Volume group does not exist."))
             ELSE Finish(r1, fail_json_of("Volume group does not exist.", out.rc,
                                          Len(r1.cmds)))
        ELSE Goto(r1, "parse_vg")

\* this_vg = parse_vg(vg_info)
DoParseVg(r) ==
    LET v == parse_vg(r.vg_info)
    IN  IF v.tag = "exc" THEN Finish(Enter(r), Traceback("UnboundLocalError"))
        ELSE Goto([Enter(r) EXCEPT !.this_vg = v], "size")

\* if size is not None: lv_size = round_ppsize(convert_size(module, size), ...)
DoSize(r) ==
    IF ~params.size.given THEN Goto(Enter(r), "lslv")
    ELSE LET c == convert_size(params.size.s)
         IN  IF c.tag = "fail"
                 THEN Finish(Enter(r), fail_json("No valid size unit specified.", 0))
             ELSE IF c.tag = "exc"
                 THEN Finish(Enter(r), Traceback("convert_size"))
             ELSE IF r.this_vg.pp_size = 0
                 THEN Finish(Enter(r), Traceback("ZeroDivisionError"))
             ELSE Goto([Enter(r) EXCEPT
                            !.lv_size = round_ppsize(c.val, r.this_vg.pp_size)],
                       "lslv")

\* variant of DoLslv without the early exit for state == 'absent'
DoLslv_noexit(r, out) ==
    Goto([Enter(r) EXCEPT
              !.cmds = Append(r.cmds, Cmd("", "lslv", lv, "", -1, "")),
              !.lv_rc = out.rc, !.lv_info = out.text], "parse_lv")

\* rc, lv_info, err = module.run_command(f"{lslv_cmd} {lv}")
\* if rc != 0 and state == 'absent': exit_json(changed=False)
DoLslv(r, out) ==
    LET r1 == [Enter(r) EXCEPT
                   !.cmds = Append(r.cmds, Cmd("", "lslv", lv, "", -1, "")),
                   !.lv_rc = out.rc, !.lv_info = out.text]
    IN  IF out.rc # 0 /\ params.state = "absent"
        THEN Finish(r1, exit_json(FALSE, "Logical Volume does not exist."))
        ELSE Goto(r1, "parse_lv")

\* this_lv = parse_lv(lv_info)
DoParseLv(r) ==
    LET v == parse_lv(r.lv_info)
    IN  IF v.tag = "exc" THEN Finish(Enter(r), Traceback("UnboundLocalError"))
        ELSE Goto([Enter(r) EXCEPT !.this_lv = v], "need_size")

\* variant of DoNeedSize that leaves the missing size to the later steps
DoNeedSize_late(r) == Goto(Enter(r), "select")

\* if state == 'present' and not size and this_lv is None: fail_json
DoNeedSize(r) ==
    IF params.state = "present" /\ ~Truthy(params.size) /\ r.this_lv.tag = "None"
    THEN Finish(Enter(r), fail_json("No size given.", 0))
    ELSE Goto(Enter(r), "select")

\* if this_lv is None: (if state == 'present': ...) elif state == 'absent': ... else: ...
DoSelect(r) ==
    IF r.this_lv.tag = "None"
    THEN IF params.state = "present" THEN Goto(Enter(r), "space")
         ELSE Finish(Enter(r), NoResult)
    ELSE IF params.state = "absent" THEN Goto(Enter(r), "rmlv")
    ELSE Goto(Enter(r), "policy")

\* variant of DoSpace that refuses a volume filling the free space exactly
DoSpace_ge(r) ==
    IF r.lv_size >= r.this_vg.free
    THEN Finish(Enter(r), fail_json("Not enough free space in volume group.", 0))
    ELSE Goto(Enter(r), "mklv")

\* if lv_size > this_vg['free']: fail_json
DoSpace(r) ==
    IF r.lv_size > r.this_vg.free
    THEN Finish(Enter(r), fail_json("Not enough free space in volume group.", 0))
    ELSE Goto(Enter(r), "mklv")

\* the exit code of a command line: 'echo ...' runs echo, which exits 0
ExitCode(cmd, rc) == IF cmd.prefix = "echo " THEN 0 ELSE rc

\* variant of AfterCommand that reports success whatever rc is
AfterCommand_ignoreRc(r, cmd, rc, done_msg, fail_msg) ==
    Finish([Enter(r) EXCEPT !.cmds = Append(r.cmds, cmd),
                            !.mut_rc = ExitCode(cmd, rc)],
           exit_json(TRUE, done_msg))

\* rc, out, err = module.run_command(cmd); exit_json if rc == 0 else fail_json
AfterCommand(r, cmd, rc, done_msg, fail_msg) ==
    LET r1 == [Enter(r) EXCEPT !.cmds = Append(r.cmds, cmd),
                               !.mut_rc = ExitCode(cmd, rc)]
    IN  IF r1.mut_rc = 0
        THEN Finish(r1, exit_json(TRUE, done_msg))
        ELSE Finish(r1, fail_json_of(fail_msg, r1.mut_rc, Len(r1.cmds)))

\* cmd = "%s %s -t %s -y %s -c %s  -e %s %s %s %sM %s"
MklvCmd(r, chk) ==
    Cmd(test_opt(chk), "mklv", lv, params.vg, r.lv_size, lv_policy(params.policy))

DoMklv(r, chk, rc) ==
    AfterCommand(r, MklvCmd(r, chk), rc, "Logical volume created.",
                 "Creating logical volume failed.")

\* f"{test_opt} {rmlv_cmd} -f {this_lv['name']}"
RmlvCmd(r, chk) == Cmd(test_opt(chk), "rmlv", r.this_lv.name, "", -1, "")

DoRmlv(r, chk, rc) ==
    AfterCommand(r, RmlvCmd(r, chk), rc, "Logical volume deleted.",
                 "Failed to remove logical volume.")

\* variant of PolicyDiffers comparing with the -e flag letter
PolicyDiffers_flag(r) == r.this_lv.policy # lv_policy(params.policy)

\* if this_lv['policy'] != policy
PolicyDiffers(r) == r.this_lv.policy # params.policy

\* variant of DoPolicy that lets a size difference go first
DoPolicy_sizeFirst(r) ==
    IF Truthy(params.size) /\ r.lv_size # r.this_lv.size THEN Goto(Enter(r), "group")
    ELSE IF PolicyDiffers(r) THEN Goto(Enter(r), "chlv")
    ELSE Goto(Enter(r), "group")

\* if this_lv['policy'] != policy: (chlv) ... ; then the group check
DoPolicy(r) ==
    IF PolicyDiffers(r) THEN Goto(Enter(r), "chlv") ELSE Goto(Enter(r), "group")

\* f"{test_opt} {chlv_cmd} -e {lv_policy} {this_lv['name']}"
ChlvCmd(r, chk) ==
    Cmd(test_opt(chk), "chlv", r.this_lv.name, "", -1, lv_policy(params.policy))

\* variant of DoChlv that goes on to the group check after a successful chlv
DoChlv_noexit(r, chk, rc) ==
    LET r1 == [Enter(r) EXCEPT !.cmds = Append(r.cmds, ChlvCmd(r, chk)),
                               !.mut_rc = ExitCode(ChlvCmd(r, chk), rc)]
    IN  IF r1.mut_rc = 0 THEN Goto(r1, "group")
        ELSE Finish(r1, fail_json_of("Failed to change logical volume policy.",
                                     r1.mut_rc, Len(r1.cmds)))

\* rc, out, err = module.run_command(chlv); exit_json / fail_json
DoChlv(r, chk, rc) ==
    AfterCommand(r, ChlvCmd(r, chk), rc, "Logical volume policy changed.",
                 "Failed to change logical volume policy.")

\* variant of DoGroup with the group check after the no-size test
DoGroup_afterNoSize(r) ==
    IF ~Truthy(params.size) THEN Goto(Enter(r), "nosize")
    ELSE IF params.vg # r.this_lv.vg
        THEN Finish(Enter(r), fail_json("Logical volume already exist in volume group.", 0))
    ELSE Goto(Enter(r), "nosize")

\* variant of DoGroup that never compares the groups
DoGroup_never(r) == Goto(Enter(r), "nosize")

\* if vg != this_lv['vg']: fail_json
DoGroup(r) ==
    IF params.vg # r.this_lv.vg
    THEN Finish(Enter(r), fail_json("Logical volume already exist in volume group.", 0))
    ELSE Goto(Enter(r), "nosize")

\* if not size: exit_json(changed=False)
DoNoSize(r) ==
    IF ~Truthy(params.size)
    THEN Finish(Enter(r), exit_json(FALSE, "Logical volume already exist."))
    ELSE Goto(Enter(r), "compare")

\* if int(lv_size) > this_lv['size']: ... elif lv_size < this_lv['size']: ... else: ...
DoCompare(r) ==
    IF r.lv_size > r.this_lv.size THEN Goto(Enter(r), "extendlv")
    ELSE IF r.lv_size < r.this_lv.size
        THEN Finish(Enter(r), fail_json("No shrinking of Logical Volume permitted.", 0))
    ELSE Finish(Enter(r), exit_json(FALSE, "Logical volume size is already."))

\* cmd = f"{test_opt} {extendlv_cmd} {lv} {lv_size - this_lv['size']}M"
ExtendlvCmd(r, chk) ==
    Cmd(test_opt(chk), "extendlv", lv, "", r.lv_size - r.this_lv.size, "")

DoExtendlv(r, chk, rc) ==
    AfterCommand(r, ExtendlvCmd(r, chk), rc, "Logical volume size extended.",
                 "Unable to resize.")

(***************************************************************************)
(* The command runner.  The module reads the volume group and the volume   *)
(* through lsvg and lslv and changes them through mklv, rmlv, chlv and     *)
(* extendlv.  env is the storage the commands act on: the groups that      *)
(* exist (each of GroupPPs partitions of EnvPP MB) and the volume lv.      *)
(***************************************************************************)
EnvNoLV == [tag |-> "None", vg |-> "", lps |-> 0, policy |-> ""]
EnvLV(g, k, w) == [tag |-> "lv", vg |-> g, lps |-> k, policy |-> w]

Groups == {"vg1", "vg2"}
Policies == {"maximum", "minimum"}
GroupPPs == MaxLPs

\* free megabytes of group g
EnvFree(e, g) ==
    EnvPP * (GroupPPs - (IF e.lv.tag = "lv" /\ e.lv.vg = g THEN e.lv.lps ELSE 0))

\* the text lsvg prints for an existing group
VgText(g, pp, free) ==
    <<VgNameLine(g), PpSizeLine(pp), TotalLine(EnvPP * GroupPPs), FreeLine(free)>>

\* the text lslv prints for an existing volume
LvText(g, pp, k, w) ==
    <<LvNameLine(lv, g), PpSizeLine(pp), LpsLine(k), PolicyLine(w)>>

\* lsvg <vg> against env
EnvLsvg(e, g) ==
    IF g \in e.groups THEN [rc |-> 0, text |-> VgText(g, EnvPP, EnvFree(e, g))]
    ELSE [rc |-> 1, text |-> <<>>]

\* lslv <lv> against env
EnvLslv(e) ==
    IF e.lv.tag = "lv"
    THEN [rc |-> 0, text |-> LvText(e.lv.vg, EnvPP, e.lv.lps, e.lv.policy)]
    ELSE [rc |-> 1, text |-> <<>>]

\* the exit code of a mutating binary against env
EnvRc(e, cmd) ==
    CASE cmd.bin = "mklv" ->
            IF cmd.vg \in e.groups /\ e.lv.tag = "None"
               /\ cmd.size <= EnvFree(e, cmd.vg) THEN 0 ELSE 1
      [] cmd.bin = "extendlv" ->
            IF e.lv.tag = "lv" /\ cmd.size <= EnvFree(e, e.lv.vg) THEN 0 ELSE 1
      [] OTHER -> IF e.lv.tag = "lv" THEN 0 ELSE 1

PolicyOf(flag) == IF flag = "x" THEN "maximum" ELSE "minimum"

\* what a command line that exited rc does to env; 'echo ...' does nothing
Effect(e, cmd, rc) ==
    IF ~faithful \/ cmd.prefix = "echo " \/ rc # 0 THEN e
    ELSE CASE cmd.bin = "mklv" ->
                 [e EXCEPT !.lv = EnvLV(cmd.vg, cmd.size \div EnvPP, PolicyOf(cmd.pol))]
           [] cmd.bin = "rmlv" -> [e EXCEPT !.lv = EnvNoLV]
           [] cmd.bin = "chlv" -> [e EXCEPT !.lv.policy = PolicyOf(cmd.pol)]
           [] cmd.bin = "extendlv" ->
                 [e EXCEPT !.lv.lps = e.lv.lps + (cmd.size \div EnvPP)]
           [] OTHER -> e

\* t without its i-th line
DropLine(t, i) == SubSeq(t, 1, i - 1) \o SubSeq(t, i + 1, Len(t))

FreeVals == {EnvPP * k : k \in 1..MaxFreePPs}

\* group report texts of an arbitrary runner: complete ones, and ones that
\* lack a line
VgTexts(g) ==
    {VgText(g, pp, f) : pp \in {0, EnvPP}, f \in FreeVals}
        \cup {DropLine(VgText(g, EnvPP, EnvPP), i) : i \in 1..4}

LvTexts ==
    {LvText(g, EnvPP, k, w) : g \in Groups, k \in 1..MaxLPs, w \in Policies}
        \cup {DropLine(LvText("vg1", EnvPP, 1, "maximum"), i) : i \in 1..4}
        \cup {<<>>}

\* what lsvg, lslv and a mutating binary can return
LsvgChoices ==
    IF faithful THEN {EnvLsvg(env, params.vg)}
    ELSE {[rc |-> 1, text |-> <<>>],
          [rc |-> 1, text |-> VgText(params.vg, EnvPP, 0)]}
             \cup {[rc |-> 0, text |-> t] : t \in VgTexts(params.vg)}

LslvChoices ==
    IF faithful THEN {EnvLslv(env)}
    ELSE {[rc |-> 0, text |-> t] : t \in LvTexts}
             \cup {[rc |-> 1, text |-> <<>>],
                   [rc |-> 1, text |-> LvText("vg1", EnvPP, 1, "maximum")]}

RcChoices(cmd) == IF faithful THEN {EnvRc(env, cmd)} ELSE {0, 1}

(***************************************************************************)
(* Parameters of a run.                                                    *)
(***************************************************************************)
Sizes ==
    {NoSize, SizeStr(<<>>), SizeStr(<<"5", "M">>), SizeStr(<<"8", "M">>),
     SizeStr(<<"1", "2", "m">>), SizeStr(<<"3", "K">>)}

ParamSet ==
    [vg : Groups, size : Sizes, policy : Policies, state : {"present", "absent"}]

Envs ==
    {[groups |-> gs, lv |-> l] :
        gs \in SUBSET Groups,
        l \in {EnvNoLV} \cup {EnvLV(g, k, w) : g \in Groups, k \in 1..MaxLPs,
                                              w \in Policies}}

\* calc holds one call of a helper made on its own: the function (op), its
\* arguments (x and base, str, data), whether it has returned, and its value
NoCalc ==
    [op |-> "none", x |-> 0, base |-> 0, str |-> <<>>, data |-> <<>>,
     returned |-> FALSE, n |-> 0, conv |-> [tag |-> "none", val |-> 0],
     lv |-> NoneLV, vg |-> UnsetVG]

Init ==
    /\ params \in ParamSet
    /\ check_mode \in BOOLEAN
    /\ run = InitRun
    /\ twin = InitRun
    /\ env = [groups |-> {}, lv |-> EnvNoLV]
    /\ env0 = env
    /\ hist = <<>>
    /\ faithful = FALSE
    /\ calc = NoCalc

InitEnv ==
    /\ params \in ParamSet
    /\ check_mode \in BOOLEAN
    /\ run = InitRun
    /\ twin = InitRun
    /\ env \in {e \in Envs : e.lv.tag = "lv" => e.lv.vg \in e.groups}
    /\ env0 = env
    /\ hist = <<>>
    /\ faithful = TRUE
    /\ calc = NoCalc

(***************************************************************************)
(* Actions: one per step of main().  twin is the run of the same           *)
(* parameters and the same command results in the other mode (check mode   *)
(* when run is not, and conversely).                                       *)
(***************************************************************************)
\* env0 is env as it was when the current run started
Fixed == UNCHANGED <<params, check_mode, env0, hist, faithful, calc>>

CallLsvg ==
    /\ run.pc = "lsvg"
    /\ \E out \in LsvgChoices :
          /\ run' = DoLsvg(run, out)
          /\ twin' = IF twin.pc = "lsvg" THEN DoLsvg(twin, out) ELSE twin
    /\ UNCHANGED env /\ Fixed

ParseVg ==
    /\ run.pc = "parse_vg"
    /\ run' = DoParseVg(run)
    /\ twin' = IF twin.pc = "parse_vg" THEN DoParseVg(twin) ELSE twin
    /\ UNCHANGED env /\ Fixed

ComputeSize ==
    /\ run.pc = "size"
    /\ run' = DoSize(run)
    /\ twin' = IF twin.pc = "size" THEN DoSize(twin) ELSE twin
    /\ UNCHANGED env /\ Fixed

CallLslv ==
    /\ run.pc = "lslv"
    /\ \E out \in LslvChoices :
          /\ run' = DoLslv(run, out)
          /\ twin' = IF twin.pc = "lslv" THEN DoLslv(twin, out) ELSE twin
    /\ UNCHANGED env /\ Fixed

ParseLv ==
    /\ run.pc = "parse_lv"
    /\ run' = DoParseLv(run)
    /\ twin' = IF twin.pc = "parse_lv" THEN DoParseLv(twin) ELSE twin
    /\ UNCHANGED env /\ Fixed

NeedSize ==
    /\ run.pc = "need_size"
    /\ run' = DoNeedSize(run)
    /\ twin' = IF twin.pc = "need_size" THEN DoNeedSize(twin) ELSE twin
    /\ UNCHANGED env /\ Fixed

Select ==
    /\ run.pc = "select"
    /\ run' = DoSelect(run)
    /\ twin' = IF twin.pc = "select" THEN DoSelect(twin) ELSE twin
    /\ UNCHANGED env /\ Fixed

CheckSpace ==
    /\ run.pc = "space"
    /\ run' = DoSpace(run)
    /\ twin' = IF twin.pc = "space" THEN DoSpace(twin) ELSE twin
    /\ UNCHANGED env /\ Fixed

CallMklv ==
    /\ run.pc = "mklv"
    /\ \E rc \in RcChoices(MklvCmd(run, FALSE)) :
          /\ run' = DoMklv(run, check_mode, rc)
          /\ twin' = IF twin.pc = "mklv" THEN DoMklv(twin, ~check_mode, rc) ELSE twin
          /\ env' = Effect(env, MklvCmd(run, check_mode), rc)
    /\ Fixed

CallRmlv ==
    /\ run.pc = "rmlv"
    /\ \E rc \in RcChoices(RmlvCmd(run, FALSE)) :
          /\ run' = DoRmlv(run, check_mode, rc)
          /\ twin' = IF twin.pc = "rmlv" THEN DoRmlv(twin, ~check_mode, rc) ELSE twin
          /\ env' = Effect(env, RmlvCmd(run, check_mode), rc)
    /\ Fixed

CheckPolicy ==
    /\ run.pc = "policy"
    /\ run' = DoPolicy(run)
    /\ twin' = IF twin.pc = "policy" THEN DoPolicy(twin) ELSE twin
    /\ UNCHANGED env /\ Fixed

CallChlv ==
    /\ run.pc = "chlv"
    /\ \E rc \in RcChoices(ChlvCmd(run, FALSE)) :
          /\ run' = DoChlv(run, check_mode, rc)
          /\ twin' = IF twin.pc = "chlv" THEN DoChlv(twin, ~check_mode, rc) ELSE twin
          /\ env' = Effect(env, ChlvCmd(run, check_mode), rc)
    /\ Fixed

CheckGroup ==
    /\ run.pc = "group"
    /\ run' = DoGroup(run)
    /\ twin' = IF twin.pc = "group" THEN DoGroup(twin) ELSE twin
    /\ UNCHANGED env /\ Fixed

CheckNoSize ==
    /\ run.pc = "nosize"
    /\ run' = DoNoSize(run)
    /\ twin' = IF twin.pc = "nosize" THEN DoNoSize(twin) ELSE twin
    /\ UNCHANGED env /\ Fixed

CompareSize ==
    /\ run.pc = "compare"
    /\ run' = DoCompare(run)
    /\ twin' = IF twin.pc = "compare" THEN DoCompare(twin) ELSE twin
    /\ UNCHANGED env /\ Fixed

CallExtendlv ==
    /\ run.pc = "extendlv"
    /\ \E rc \in RcChoices(ExtendlvCmd(run, FALSE)) :
          /\ run' = DoExtendlv(run, check_mode, rc)
          /\ twin' = IF twin.pc = "extendlv"
                     THEN DoExtendlv(twin, ~check_mode, rc) ELSE twin
          /\ env' = Effect(env, ExtendlvCmd(run, check_mode), rc)
    /\ Fixed

\* the module is run again with the same parameters (the next play)
NextRun ==
    /\ run.pc = "done"
    /\ Len(hist) + 1 < MaxRuns
    /\ hist' = Append(hist, [run |-> run, env0 |-> env0, env |-> env])
    /\ env0' = env
    /\ run' = InitRun
    /\ twin' = InitRun
    /\ UNCHANGED <<params, check_mode, env, faithful, calc>>

Next ==
    \/ CallLsvg \/ ParseVg \/ ComputeSize \/ CallLslv \/ ParseLv \/ NeedSize
    \/ Select \/ CheckSpace \/ CallMklv \/ CallRmlv \/ CheckPolicy \/ CallChlv
    \/ CheckGroup \/ CheckNoSize \/ CompareSize \/ CallExtendlv

NextEnv == Next \/ NextRun

\* one run of main() against a command runner that may return anything
Spec == Init /\ [][Next]_vars

\* consecutive runs against a runner whose commands report and change env
SpecEnv == InitEnv /\ [][NextEnv]_vars

(***************************************************************************)
(* The helpers called on their own: one call of round_ppsize,              *)
(* convert_size, parse_lv or parse_vg on arguments drawn from bounded      *)
(* sets.                                                                   *)
(***************************************************************************)
\* the characters of the size strings tried
SizeChars == {"0", "1", "2", "9", "M", "m", "G", "g", "T", "t", "K", "x"}

\* the lines of the lslv texts tried; the last but one is a line both the
\* LPs and the PP SIZE patterns match ("MAX LPs: 5 PPs ... PP SIZE: 8")
LvLines ==
    {LvNameLine(lv, "vg1"), LpsLine(2), LpsLine(3), PpSizeLine(EnvPP),
     PolicyLine("minimum"), [NoLine EXCEPT !.lps = 5, !.pp_size = 8], NoLine}

\* the lines of the lsvg texts tried
VgLines ==
    {VgNameLine("vg1"), TotalLine(EnvPP * GroupPPs), PpSizeLine(EnvPP),
     PpSizeLine(0), FreeLine(EnvPP), NoLine}

\* the calls tried: round_ppsize on every pair of arguments, the other
\* three helpers on a string or text that the actions below put together
CalcInputs ==
    {[NoCalc EXCEPT !.op = "round_ppsize", !.x = x, !.base = b] :
         x \in 1..MaxValue, b \in 1..MaxBase}
    \cup {[NoCalc EXCEPT !.op = o] : o \in {"convert_size", "parse_lv", "parse_vg"}}

InitFn ==
    /\ params = [vg |-> "vg1", size |-> NoSize, policy |-> "maximum",
                 state |-> "present"]
    /\ check_mode = FALSE
    /\ run = InitRun
    /\ twin = InitRun
    /\ env = [groups |-> {}, lv |-> EnvNoLV]
    /\ env0 = env
    /\ hist = <<>>
    /\ faithful = FALSE
    /\ calc \in CalcInputs

Idle == UNCHANGED <<params, check_mode, run, twin, env, env0, hist, faithful>>

\* the caller's size string grows by one character
TypeChar ==
    /\ calc.op = "convert_size" /\ ~calc.returned
    /\ Len(calc.str) < MaxStrLen
    /\ \E c \in SizeChars : calc' = [calc EXCEPT !.str = Append(calc.str, c)]
    /\ Idle

\* the report text grows by one line
ReadLine ==
    /\ calc.op \in {"parse_lv", "parse_vg"} /\ ~calc.returned
    /\ Len(calc.data) < MaxLines
    /\ \E l \in (IF calc.op = "parse_lv" THEN LvLines ELSE VgLines) :
           calc' = [calc EXCEPT !.data = Append(calc.data, l)]
    /\ Idle

\* new_size = round_ppsize(x, base)
ApplyRound ==
    /\ calc.op = "round_ppsize" /\ ~calc.returned
    /\ calc' = [calc EXCEPT !.returned = TRUE,
                            !.n = round_ppsize(calc.x, calc.base)]
    /\ Idle

\* convert_size(module, size)
ApplyConvert ==
    /\ calc.op = "convert_size" /\ ~calc.returned
    /\ calc' = [calc EXCEPT !.returned = TRUE, !.conv = convert_size(calc.str)]
    /\ Idle

\* parse_lv(data)
ApplyParseLv ==
    /\ calc.op = "parse_lv" /\ ~calc.returned
    /\ calc' = [calc EXCEPT !.returned = TRUE, !.lv = parse_lv(calc.data)]
    /\ Idle

\* parse_vg(data)
ApplyParseVg ==
    /\ calc.op = "parse_vg" /\ ~calc.returned
    /\ calc' = [calc EXCEPT !.returned = TRUE, !.vg = parse_vg(calc.data)]
    /\ Idle

NextFn ==
    \/ TypeChar \/ ReadLine
    \/ ApplyRound \/ ApplyConvert \/ ApplyParseLv \/ ApplyParseVg

\* one call of one helper
SpecFn == InitFn /\ [][NextFn]_vars

(***************************************************************************)
(* Vocabulary of the properties.                                           *)
(***************************************************************************)
Done(r) == r.pc = "done"
InTrail(r, label) == \E i \in 1..Len(r.trail) : r.trail[i] = label
\* positions of the mutating command lines a run handed to run_command
MutIdx(r) == {i \in 1..Len(r.cmds) : r.cmds[i].bin \in Mutating}
Issued(r, bin) == \E i \in 1..Len(r.cmds) : r.cmds[i].bin = bin
Changed(r) == r.result.kind = "exit" /\ r.result.changed
NoOp(r) == r.result.kind = "exit" /\ ~r.result.changed
FailedWith(r, msg) == r.result.kind = "fail" /\ r.result.msg = msg
\* the run has parsed both reports
Observed(r) == InTrail(r, "need_size")
ObservedAbsent(r) == Observed(r) /\ r.this_lv.tag = "None"
ObservedPresent(r) == Observed(r) /\ r.this_lv.tag = "lv"
\* the smallest multiple of base that is >= value
CeilTo(value, base) == base * ((value + base - 1) \div base)
\* the desired size in MB rounded up to the group's allocation unit
Target(r) == CeilTo(convert_size(params.size.s).val, r.this_vg.pp_size)

NoSizeMsg == "No size given."
NoSpaceMsg == "Not enough free space in volume group."
GroupMsg == "Logical volume already exist in volume group."
ShrinkMsg == "No shrinking of Logical Volume permitted."
UnitMsg == "No valid size unit specified."

(***************************************************************************)
(* C1: every run terminates having reported exactly one result             *)
(* (changed=false, changed=true or a fatal failure, a traceback counted    *)
(* as a fatal failure here), and with desired=absent and the volume        *)
(* report parsed to no volume the result is changed=false.                 *)
(***************************************************************************)
C1_OneResult ==
    /\ ~Done(run) => ENABLED Next
    /\ Done(run) => run.result.kind \in {"exit", "fail", "exc"}
    /\ (Done(run) /\ params.state = "absent" /\ ObservedAbsent(run)) => NoOp(run)

(***************************************************************************)
(* C2: a run hands at most one mutating command line to the runner, none   *)
(* when it ends as a no-op or fails with one of the five decision errors,  *)
(* and no command of any kind follows a mutating one.                      *)
(***************************************************************************)
C2_AtMostOneMutation ==
    /\ Cardinality(MutIdx(run)) <= 1
    /\ \A i \in MutIdx(run) : i = Len(run.cmds)
    /\ (Done(run) /\ NoOp(run)) => MutIdx(run) = {}
    /\ (Done(run) /\ run.result.kind = "fail"
          /\ run.result.msg \in {NoSizeMsg, NoSpaceMsg, GroupMsg, ShrinkMsg, UnitMsg})
        => MutIdx(run) = {}

\* a run that changed the policy although the size differed as well
C2_Witness ==
    /\ Done(run) /\ Changed(run)
    /\ Len(run.cmds) = 3 /\ run.cmds[3].bin = "chlv"
    /\ Truthy(params.size) /\ run.lv_size > run.this_lv.size

(***************************************************************************)
(* C3: desired=present, volume observed present with the desired policy    *)
(* and group, size supplied, T the desired size rounded up to the group's  *)
(* allocation unit, S the observed size: extendlv with delta T - S iff     *)
(* T > S, changed=false and no command iff T = S, the shrink error and no  *)
(* command iff T < S.                                                      *)
(***************************************************************************)
C3_Pre(r) ==
    /\ Done(r) /\ params.state = "present" /\ ObservedPresent(r)
    /\ r.this_lv.policy = params.policy /\ r.this_lv.vg = params.vg
    /\ Truthy(params.size)

C3_ResizeOnlyUp ==
    C3_Pre(run) =>
        LET T == Target(run)
            S == run.this_lv.size
            extended == /\ Cardinality(MutIdx(run)) = 1
                        /\ run.cmds[Len(run.cmds)].bin = "extendlv"
                        /\ run.cmds[Len(run.cmds)].size = T - S
        IN  /\ extended <=> T > S
            /\ (NoOp(run) /\ MutIdx(run) = {}) <=> T = S
            /\ (FailedWith(run, ShrinkMsg) /\ MutIdx(run) = {}) <=> T < S

\* an extension whose target was rounded up from the requested size
C3_Witness ==
    /\ C3_Pre(run)
    /\ Target(run) > convert_size(params.size.s).val
    /\ Target(run) > run.this_lv.size
    /\ Issued(run, "extendlv")

(***************************************************************************)
(* C4: desired=present, volume observed present with a policy other than   *)
(* the desired one: chlv is the run's only mutating command, extendlv is   *)
(* not issued and the size comparison is not reached.                      *)
(***************************************************************************)
C4_Pre(r) ==
    /\ Done(r) /\ params.state = "present" /\ ObservedPresent(r)
    /\ r.this_lv.policy # params.policy

C4_PolicyFirst ==
    C4_Pre(run) =>
        /\ Cardinality(MutIdx(run)) = 1
        /\ run.cmds[Len(run.cmds)].bin = "chlv"
        /\ ~Issued(run, "extendlv")
        /\ ~InTrail(run, "compare")
        /\ ~FailedWith(run, ShrinkMsg)

\* the policy is changed although the supplied size is below the observed one
C4_Witness ==
    /\ C4_Pre(run) /\ Truthy(params.size)
    /\ run.lv_size >= 0 /\ run.lv_size < run.this_lv.size
    /\ Issued(run, "chlv")

(***************************************************************************)
(* C5: desired=absent, the group exists and the volume exists: the run     *)
(* (unless it ends in a traceback) issues exactly one rmlv, whatever the   *)
(* size parameter is.  Stated on the environment the run ended in: a       *)
(* volume that is still there was at least handed to rmlv.                 *)
(***************************************************************************)
C5_DeleteWhenPresent ==
    (/\ Done(run) /\ params.state = "absent" /\ run.result.kind # "exc"
     /\ params.vg \in env0.groups /\ env0.lv.tag = "lv")
        => /\ Issued(run, "rmlv")
           /\ Cardinality(MutIdx(run)) = 1

(***************************************************************************)
(* C6 as claimed: desired=present, volume observed absent, size supplied:  *)
(* the run fails for lack of space, with no command, exactly when the      *)
(* target in allocation units (rounded MB / unit size) exceeds the free    *)
(* figure of the group report, and issues mklv otherwise.                  *)
(***************************************************************************)
C6_Pre(r) ==
    /\ Done(r) /\ params.state = "present" /\ ObservedAbsent(r)
    /\ Truthy(params.size)

Created(r, size) ==
    /\ Cardinality(MutIdx(r)) = 1
    /\ r.cmds[Len(r.cmds)].bin = "mklv"
    /\ r.cmds[Len(r.cmds)].size = size

C6_UnitsVsFree ==
    C6_Pre(run) =>
        IF Target(run) \div run.this_vg.pp_size > run.this_vg.free
        THEN FailedWith(run, NoSpaceMsg) /\ MutIdx(run) = {}
        ELSE Created(run, Target(run))

(***************************************************************************)
(* C6 amended: the comparison is between the rounded target in MB and the  *)
(* free figure of the group report: the run fails for lack of space, with  *)
(* no command, exactly when the target in MB exceeds that figure, and      *)
(* issues mklv for the target otherwise.                                   *)
(***************************************************************************)
C6_SpaceInMB ==
    C6_Pre(run) =>
        IF Target(run) > run.this_vg.free
        THEN FailedWith(run, NoSpaceMsg) /\ MutIdx(run) = {}
        ELSE Created(run, Target(run))

\* refused although the target counted in allocation units would fit
C6_Witness ==
    /\ C6_Pre(run) /\ FailedWith(run, NoSpaceMsg)
    /\ Target(run) \div run.this_vg.pp_size <= run.this_vg.free

(***************************************************************************)
(* Consecutive runs: the finished runs so far, oldest first.               *)
(***************************************************************************)
Runs ==
    LET old == [i \in 1..Len(hist) |-> hist[i].run]
    IN  IF Done(run) THEN Append(old, run) ELSE old

\* env before and after the i-th finished run
EnvBefore(i) == IF i <= Len(hist) THEN hist[i].env0 ELSE env0
EnvAfter(i) == IF i <= Len(hist) THEN hist[i].env ELSE env

\* every mutating command so far succeeded
AllSucceeded == \A i \in 1..Len(Runs) : MutIdx(Runs[i]) # {} => Changed(Runs[i])

NumChanged == Cardinality({i \in 1..Len(Runs) : Changed(Runs[i])})

\* the i-th run comes after the runs that changed something
Settled(i) == i > 2 \/ (i > 1 /\ ~Changed(Runs[i - 1]))

(***************************************************************************)
(* C7 as claimed: in normal mode against an environment that applies       *)
(* every command and holds the desired group, and with a size parameter    *)
(* that converts, at most two runs report changed=true and every further   *)
(* run reports changed=false and issues no mutating command.               *)
(***************************************************************************)
C7_ConvergesToNoOp ==
    (/\ ~check_mode /\ AllSucceeded /\ params.vg \in env0.groups
     /\ \A i \in 1..Len(Runs) :
           Runs[i].result.kind # "exc" /\ ~FailedWith(Runs[i], UnitMsg)) =>
        /\ NumChanged <= 2
        /\ \A i \in 1..Len(Runs) :
              Settled(i) => NoOp(Runs[i]) /\ MutIdx(Runs[i]) = {}

(***************************************************************************)
(* C7 amended: at most two runs report changed=true; every further run     *)
(* issues no mutating command, leaves the environment as it is and does    *)
(* not report changed=true: it reports changed=false or fails, and once a  *)
(* run has changed nothing every later run ends with the same result.      *)
(***************************************************************************)
C7_Converges ==
    (~check_mode /\ AllSucceeded) =>
        /\ NumChanged <= 2
        /\ \A i \in 1..Len(Runs) :
              Settled(i) =>
                  /\ ~Changed(Runs[i]) /\ MutIdx(Runs[i]) = {}
                  /\ EnvAfter(i) = EnvBefore(i)
                  /\ ~Changed(Runs[i - 1]) => Runs[i].result = Runs[i - 1].result

\* a policy change, then the pending resize, then a no-op
C7_Witness ==
    /\ ~check_mode /\ Len(Runs) >= 3
    /\ Changed(Runs[1]) /\ Issued(Runs[1], "chlv")
    /\ Changed(Runs[2]) /\ Issued(Runs[2], "extendlv")
    /\ NoOp(Runs[3])

(***************************************************************************)
(* C8: desired=absent and lsvg or lslv exits non-zero in a run: the run    *)
(* reports changed=false, issues no mutating command and leaves the        *)
(* environment as it is; the run after it meets the same situation and     *)
(* reports changed=false as well.                                          *)
(***************************************************************************)
ReportFailed(r) == r.vg_rc # 0 \/ r.lv_rc # 0

C8_AbsentReportFails ==
    params.state = "absent" =>
        \A i \in 1..Len(Runs) :
            ReportFailed(Runs[i]) =>
                /\ NoOp(Runs[i]) /\ MutIdx(Runs[i]) = {}
                /\ EnvAfter(i) = EnvBefore(i)
                /\ i > 1 /\ ReportFailed(Runs[i - 1]) =>
                      /\ NoOp(Runs[i - 1])
                      /\ EnvAfter(i) = EnvBefore(i - 1)
                /\ i < Len(Runs) => ReportFailed(Runs[i + 1])

\* two runs in sequence, the group there and the volume not
C8_Witness ==
    /\ params.state = "absent" /\ Len(Runs) >= 2
    /\ Runs[1].vg_rc = 0 /\ Runs[1].lv_rc # 0 /\ NoOp(Runs[1])
    /\ Runs[2].lv_rc # 0 /\ NoOp(Runs[2])

(***************************************************************************)
(* C9: desired=present, volume observed present with the desired policy    *)
(* but in another group: the run fails with the group error and issues no  *)
(* mutating command, before the no-size no-op and the size comparison.     *)
(***************************************************************************)
C9_Pre(r) ==
    /\ Done(r) /\ params.state = "present" /\ ObservedPresent(r)
    /\ r.this_lv.policy = params.policy /\ r.this_lv.vg # params.vg

C9_GroupMismatch ==
    C9_Pre(run) =>
        /\ FailedWith(run, GroupMsg)
        /\ MutIdx(run) = {}
        /\ ~InTrail(run, "nosize") /\ ~InTrail(run, "compare")

\* the group error although no size was supplied
C9_Witness == C9_Pre(run) /\ ~params.size.given /\ FailedWith(run, GroupMsg)

(***************************************************************************)
(* Check mode against normal mode: run and twin have the same parameters   *)
(* and received the same command results.                                  *)
(***************************************************************************)
\* a command line without its prefix
Bare(cmd) == [cmd EXCEPT !.prefix = ""]
BareCmds(r) == [i \in 1..Len(r.cmds) |-> Bare(r.cmds[i])]

\* the prefixes of the command lines of a run in mode chk
PrefixesOf(r, chk) ==
    \A i \in 1..Len(r.cmds) :
        r.cmds[i].prefix =
            (IF chk /\ r.cmds[i].bin \in Mutating THEN "echo " ELSE "")

SameDecision ==
    /\ Done(twin)
    /\ twin.trail = run.trail
    /\ BareCmds(twin) = BareCmds(run)
    /\ PrefixesOf(run, check_mode) /\ PrefixesOf(twin, ~check_mode)

(***************************************************************************)
(* C10 as claimed: the check-mode run selects the same action and reports  *)
(* the same changed/failed outcome as the normal-mode run; only the        *)
(* mutating command line is prefixed with echo.                            *)
(***************************************************************************)
C10_SameOutcome ==
    Done(run) => SameDecision /\ twin.result = run.result

(***************************************************************************)
(* C10 amended: the check-mode run takes the same decisions and builds    *)
(* the same command lines, the mutating one prefixed with echo and the     *)
(* report commands unprefixed; it reports the same outcome unless the      *)
(* normal-mode run's mutating command exits non-zero, where normal mode    *)
(* fails and check mode (echo exits 0) reports changed=true.               *)
(***************************************************************************)
C10_SameDecision ==
    Done(run) =>
        /\ SameDecision
        /\ LET normal == IF check_mode THEN twin ELSE run
               dry    == IF check_mode THEN run ELSE twin
           IN  \/ dry.result = normal.result
               \/ /\ MutIdx(normal) # {} /\ normal.result.kind = "fail"
                  /\ normal.result.rc # 0 /\ Changed(dry)

\* check mode reports a creation that fails in normal mode
C10_Witness ==
    /\ Done(run) /\ check_mode /\ Changed(run) /\ Issued(run, "mklv")
    /\ twin.result.kind = "fail" /\ Issued(twin, "mklv")

(***************************************************************************)
(* C11: a run reports changed=true if and only if it invoked a mutating    *)
(* command and that command returned exit code 0; if the mutating command  *)
(* returns non-zero the run ends in a fatal failure that carries that      *)
(* command's exit code and output, and does not report changed=true.  An   *)
(* echo-prefixed command line of check mode counts as invoked; it returns  *)
(* 0.                                                                      *)
(***************************************************************************)
C11_Holds(r) ==
    Done(r) =>
        /\ Changed(r) <=> (MutIdx(r) # {} /\ r.mut_rc = 0)
        /\ (MutIdx(r) # {} /\ r.mut_rc # 0) =>
               /\ r.result.kind = "fail" /\ ~r.result.changed
               /\ r.result.rc = r.mut_rc
               /\ r.result.of = Len(r.cmds) /\ r.result.of \in MutIdx(r)

C11_ChangedIffSucceeded == C11_Holds(run) /\ C11_Holds(twin)

\* a resize whose extendlv exits non-zero ends in a failure carrying its rc
C11_Witness ==
    /\ Done(run) /\ ~check_mode /\ Issued(run, "extendlv")
    /\ run.mut_rc # 0 /\ run.result.kind = "fail"
    /\ run.result.rc = run.mut_rc /\ Changed(twin)

(***************************************************************************)
(* C12: with desired=present and the volume observed absent, a run without *)
(* a size fails with "No size given." and issues no mutating command; the  *)
(* check is made before the free-space check and before the create command *)
(* is built (the run ends at the check, neither later step is entered).    *)
(***************************************************************************)
C12_Pre(r) ==
    params.state = "present" /\ ObservedAbsent(r) /\ ~Truthy(params.size)

C12_Holds(r) ==
    C12_Pre(r) =>
        /\ Done(r) /\ FailedWith(r, NoSizeMsg) /\ r.result.rc = 0
        /\ MutIdx(r) = {}
        /\ r.trail[Len(r.trail)] = "need_size"
        /\ ~InTrail(r, "space") /\ ~InTrail(r, "mklv")

C12_MissingSize == C12_Holds(run) /\ C12_Holds(twin)

\* both reports succeeded, no volume was found and no size was given
C12_Witness ==
    /\ C12_Pre(run) /\ ~params.size.given /\ run.vg_rc = 0 /\ run.lv_rc = 0
    /\ Len(run.cmds) = 2 /\ FailedWith(run, NoSizeMsg)

(***************************************************************************)
(* C15: if the group report command (lsvg) exits non-zero and              *)
(* desired=present, the run ends in a fatal failure carrying that          *)
(* command's exit code and raw output, and neither the volume report       *)
(* command (lslv) nor a mutating command is invoked afterwards; lslv is    *)
(* only ever invoked after lsvg has exited 0.                              *)
(***************************************************************************)
C15_Pre(r) ==
    Len(r.cmds) >= 1 /\ r.vg_rc # 0 /\ params.state = "present"

C15_Holds(r) ==
    /\ C15_Pre(r) =>
           /\ Done(r) /\ r.result.kind = "fail"
           /\ r.result.rc = r.vg_rc
           /\ r.result.of = 1 /\ r.cmds[1].bin = "lsvg"
           /\ Len(r.cmds) = 1
    /\ \A i \in 1..Len(r.cmds) :
           r.cmds[i].bin = "lslv" =>
               /\ i = 2 /\ r.cmds[1].bin = "lsvg" /\ r.vg_rc = 0
               /\ r.cmds[i].prefix = ""

C15_GroupReportFails == C15_Holds(run) /\ C15_Holds(twin)

\* lsvg exited non-zero with some output and the run failed with its rc
C15_Witness ==
    /\ C15_Pre(run) /\ FailedWith(run, "Volume group does not exist.")
    /\ run.result.rc # 0 /\ Len(run.vg_info) > 0

\* the other half: a run that reached lslv, after lsvg exited 0
C15_WitnessLslv == Issued(run, "lslv") /\ run.vg_rc = 0 /\ Done(run)

(***************************************************************************)
(* C17 as claimed: no mutating command (policy change, resize or delete)   *)
(* is ever issued against an existing volume whose observed owning group   *)
(* differs from the desired group name.                                    *)
(***************************************************************************)
C17_Pre(r) == ObservedPresent(r) /\ r.this_lv.vg # params.vg

C17_NeverTouched ==
    /\ C17_Pre(run) => MutIdx(run) = {}
    /\ C17_Pre(twin) => MutIdx(twin) = {}

(***************************************************************************)
(* C17 amended: no resize command is ever issued against an existing       *)
(* volume whose observed owning group differs from the desired group name. *)
(* The only mutating commands issued against such a volume are the delete  *)
(* (desired=absent, where the groups are not compared) and the policy      *)
(* change (desired=present and the observed policy differs from the        *)
(* desired one, which is looked at before the groups are compared).        *)
(***************************************************************************)
C17_Holds(r) ==
    C17_Pre(r) =>
        /\ ~Issued(r, "extendlv") /\ ~Issued(r, "mklv")
        /\ ~InTrail(r, "compare")
        /\ Issued(r, "rmlv") => params.state = "absent"
        /\ Issued(r, "chlv") => params.state = "present" /\ PolicyDiffers(r)

C17_NoResizeAcrossGroups == C17_Holds(run) /\ C17_Holds(twin)

\* a larger size is asked for a volume of another group: no command is issued
C17_Witness ==
    /\ C17_Pre(run) /\ Done(run) /\ params.state = "present"
    /\ Truthy(params.size) /\ run.lv_size > run.this_lv.size
    /\ FailedWith(run, GroupMsg) /\ MutIdx(run) = {}

\* a volume of another group is removed, and one has its policy changed
C17_WitnessDelete ==
    C17_Pre(run) /\ Done(run) /\ ~check_mode /\ Issued(run, "rmlv") /\ Changed(run)

C17_WitnessPolicy ==
    C17_Pre(run) /\ Done(run) /\ ~check_mode /\ Issued(run, "chlv") /\ Changed(run)

(***************************************************************************)
(* C18: every record that parse_vg returns has pp_size (the                *)
(* allocation-unit size) > 0, so no run reaches round_ppsize with a zero   *)
(* base (the division that raises ZeroDivisionError).                      *)
(***************************************************************************)
C18_Holds(r) ==
    /\ r.this_vg.tag = "vg" => r.this_vg.pp_size > 0
    /\ ~(r.result.kind = "exc" /\ r.result.msg = "ZeroDivisionError")

C18_UnitSizePositive == C18_Holds(run) /\ C18_Holds(twin)

(***************************************************************************)
(* Vocabulary of the claims about the helpers on their own.                *)
(***************************************************************************)
Returned(op) == calc.op = op /\ calc.returned

C13_CreateSize ==
    \A i \in 1..Len(run.cmds) :
        run.cmds[i].bin = "mklv" =>
            /\ run.cmds[i].size % run.this_vg.pp_size = 0
            /\ run.cmds[i].size >= convert_size(params.size.s).val

(***************************************************************************)
(* C14: for a size string made of a non-negative integer prefix N and a    *)
(* final unit letter among M, G, T in either case, convert_size returns    *)
(* N * 1024^index with index 0 for M, 1 for G, 2 for T; for every other    *)
(* final character it fails with "No valid size unit specified." and       *)
(* returns no value.                                                       *)
(***************************************************************************)
Digits == <<"0", "1", "2", "3", "4", "5", "6", "7", "8", "9">>

\* the decimal notation of n on k digits, most significant first
Notation(n, k) == [i \in 1..k |-> Digits[((n \div Pow(10, k - i)) % 10) + 1]]

\* the integer a string of k digits denotes
Denoted(pre) ==
    CHOOSE n \in 0..(Pow(10, Len(pre)) - 1) : Notation(n, Len(pre)) = pre

Factor(u) ==
    CASE u \in {"M", "m"} -> 1
      [] u \in {"G", "g"} -> 1024
      [] u \in {"T", "t"} -> 1024 * 1024

UnitLetters == {"M", "m", "G", "g", "T", "t"}

C14_Convert ==
    Returned("convert_size") /\ Len(calc.str) > 0 =>
        LET u   == calc.str[Len(calc.str)]
            pre == SubSeq(calc.str, 1, Len(calc.str) - 1)
        IN  /\ (u \in UnitLetters /\ Len(pre) > 0
                    /\ \A i \in 1..Len(pre) : pre[i] \in DigitChars) =>
                   calc.conv = [tag |-> "ok", val |-> Denoted(pre) * Factor(u)]
            /\ u \notin UnitLetters => calc.conv = [tag |-> "fail", val |-> 0]

\* "12g" is 12 * 1024, and "2K" is refused
C14_Witness ==
    /\ Returned("convert_size") /\ calc.str = <<"1", "2", "g">>
    /\ calc.conv = [tag |-> "ok", val |-> 12288]

C14_WitnessFail ==
    /\ Returned("convert_size") /\ calc.str = <<"2", "K">>
    /\ calc.conv.tag = "fail"

(***************************************************************************)
(* C16: for any report text, i.e. any subset and any order of the labelled *)
(* field lines, parse_vg and parse_lv return normally: parse_vg returns a  *)
(* record, parse_lv returns a record whenever a name line is present, and  *)
(* neither fails because a field line is missing.                          *)
(***************************************************************************)
HasNameLine(data) ==
    \E i \in 1..Len(data) : data[i].lv # "" /\ data[i].vg # ""

C16_ParsersTolerant ==
    /\ Returned("parse_vg") => calc.vg.tag = "vg"
    /\ Returned("parse_lv") =>
           /\ calc.lv.tag # "exc"
           /\ HasNameLine(calc.data) => calc.lv.tag = "lv"

(***************************************************************************)
(* C19: parse_lv returns None if and only if no line of the report matches *)
(* the volume-name/owning-group pattern; when it returns a record, its     *)
(* size is partition count * unit size, each taken from the last line that *)
(* sets that field, and a line sets at most one field: that of the first   *)
(* pattern matching it in the order name, partition count, unit size,      *)
(* policy.                                                                 *)
(***************************************************************************)
\* the one field a line sets: that of the first pattern it matches
FieldOf(line) ==
    IF line.lv # "" /\ line.vg # "" THEN "name"
    ELSE IF line.lps >= 0 THEN "lps"
    ELSE IF line.pp_size >= 0 THEN "pp_size"
    ELSE IF line.policy # "" THEN "policy"
    ELSE "nothing"

LinesOf(data, field) == {i \in 1..Len(data) : FieldOf(data[i]) = field}

\* the last line of data setting field (there is one)
LastOf(data, field) ==
    data[CHOOSE i \in LinesOf(data, field) :
             \A j \in LinesOf(data, field) : j <= i]

C19_ParseLv ==
    Returned("parse_lv") =>
        LET d == calc.data
        IN  /\ calc.lv.tag = "None" <=> LinesOf(d, "name") = {}
            /\ calc.lv.tag = "lv" =>
                   /\ \A f \in {"name", "lps", "pp_size", "policy"} :
                          LinesOf(d, f) # {}
                   /\ calc.lv.name = LastOf(d, "name").lv
                   /\ calc.lv.vg = LastOf(d, "name").vg
                   /\ calc.lv.size =
                          LastOf(d, "lps").lps * LastOf(d, "pp_size").pp_size
                   /\ calc.lv.policy = LastOf(d, "policy").policy

\* a line with both a partition count and a unit size, after the unit size
\* line, sets the count only: 5 partitions of 4 MB
C19_Witness ==
    /\ Returned("parse_lv") /\ calc.lv.tag = "lv" /\ calc.lv.size = 5 * EnvPP
    /\ \E i, j \in 1..Len(calc.data) :
           /\ i < j /\ calc.data[i] = PpSizeLine(EnvPP)
           /\ calc.data[j].lps = 5 /\ calc.data[j].pp_size = 8

\* None for a text with field lines but no name line
C19_WitnessNone ==
    /\ Returned("parse_lv") /\ calc.lv.tag = "None"
    /\ LinesOf(calc.data, "lps") # {} /\ LinesOf(calc.data, "policy") # {}

C20_WitnessAligned ==
    Returned("round_ppsize") /\ calc.x = 12 /\ calc.base = 4 /\ calc.n = 12

====
